---- MODULE Spec2Model ----
(***************************************************************************)
(* Model of azure-functions/sftp-to-data-lake/sftp-to-data-lake.py: the    *)
(* HTTP-triggered handler main and the three functions it is built from,   *)
(* get_container_config, create_virtual_folder and                         *)
(* move_blob_with_virtual_folder.                                          *)
(*                                                                         *)
(* Python values are tagged records: None, strings (sequences of           *)
(* one-character strings, so that formatting and the regular expression    *)
(* work on characters), mappings (sequences of key/value pairs in          *)
(* insertion order, as a Python dict iterates) and raised exceptions.      *)
(*                                                                         *)
(* Names the file takes from outside are the environment: `func` is read   *)
(* as the azure.functions namespace (line 3 imports only `Function`, so    *)
(* as written the name is unbound), and the storage clients are the five   *)
(* abstract operations exists / create_container / create_blob /           *)
(* get_blob_client / copy_blob, each of which may raise.                   *)
(***************************************************************************)
EXTENDS Integers, Sequences, FiniteSets, TLC

VARIABLES
    configFile,        \* contents of config.yaml (a value, or Unreadable)
    request,           \* msg.params of the requests: [vendor, container]
    containers,        \* destination account: names of the containers that exist
    blobs,             \* destination account: <<container, path>> of the blobs that exist
    pc,                \* position of the running invocation, "idle" between invocations
    stack,             \* active frames, innermost last: "main", "move", "cvf"
    container_config,  \* main: result of get_container_config
    remaining,         \* main: file entries the loop has not yet taken
    source_blob_name,  \* main line 111 / move_blob_with_virtual_folder parameter
    args,              \* parameters of the running move / create_virtual_folder call
    match,             \* move_blob_with_virtual_folder: result of re.match (line 46)
    virtual_folder_path, \* move_blob_with_virtual_folder line 54
    exc,               \* the exception being propagated, or None
    ops,               \* storage operations issued by the running invocation
    run,               \* observation of the running invocation
    history,           \* observations of the completed invocations
    calls,             \* number of invocations started
    harness            \* TRUE: the functions are called by a test harness,
                       \* FALSE: the Functions host calls main and nothing else

vars == <<configFile, request, containers, blobs, pc, stack, container_config,
          remaining, source_blob_name, args, match, virtual_folder_path, exc,
          ops, run, history, calls, harness>>

----------------------------------------------------------------------------
(* Python values *)

None == [t |-> "none"]
Str(s) == [t |-> "str", v |-> s]
Map(pairs) == [t |-> "map", v |-> pairs]
Err(type, text) == [t |-> "err", type |-> type, text |-> text]
KV(k, x) == [k |-> k, val |-> x]

IsErr(x) == x.t = "err"

\* bool(x): None, "" and {} are falsy
Truthy(x) == ~(x.t = "none" \/ (x.t \in {"str", "map"} /\ x.v = <<>>))

\* A dictionary key: a literal of the code or a request parameter. The keys of
\* a mapping are plain strings; a key that is None is never among them.
Key(name) == [t |-> "key", v |-> name]

HasKey(m, k) == k.t = "key" /\ \E i \in DOMAIN m.v : m.v[i].k = k.v
Lookup(m, k) == m.v[CHOOSE i \in DOMAIN m.v : m.v[i].k = k.v].val

\* d.get(k, default); on a value without .get it raises AttributeError
Get(m, k, default) ==
    IF m.t # "map" THEN Err("AttributeError", "get")
    ELSE IF HasKey(m, k) THEN Lookup(m, k) ELSE default

\* d[k]: KeyError when the key is absent
KeyText(k) == IF k.t = "key" THEN k.v ELSE "None"

GetItem(m, k) ==
    IF m.t # "map" THEN Err("TypeError", KeyText(k))
    ELSE IF HasKey(m, k) THEN Lookup(m, k) ELSE Err("KeyError", KeyText(k))

----------------------------------------------------------------------------
(* get_container_config, lines 9-29 *)

\* A projection with source and destination exchanged.
ProjectionSwapped(source_container, destination_container, folder_mnemonic, file_configs) ==
    Map(<<KV("source_container", destination_container),
          KV("destination_container", source_container),
          KV("folder_mnemonic", folder_mnemonic),
          KV("file_configs", file_configs)>>)

\* The dictionary built at lines 24-29.
Projection(source_container, destination_container, folder_mnemonic, file_configs) ==
    Map(<<KV("source_container", source_container),
          KV("destination_container", destination_container),
          KV("folder_mnemonic", folder_mnemonic),
          KV("file_configs", file_configs)>>)

\* A lookup that indexes instead of using .get: an absent vendor or container
\* raises KeyError.
get_container_config_indexing(config, vendor_name, container_name) ==
    LET vendors == Get(config, Key("vendors"), Map(<<>>)) IN
    IF IsErr(vendors) THEN vendors ELSE
    LET vendor_config == GetItem(vendors, vendor_name) IN
    IF IsErr(vendor_config) THEN vendor_config ELSE
    LET container_entry == GetItem(vendor_config, container_name) IN
    IF IsErr(container_entry) THEN container_entry ELSE
    LET destination_container == GetItem(container_entry, Key("destination-container")) IN
    IF IsErr(destination_container) THEN destination_container ELSE
    LET folder_mnemonic == GetItem(container_entry, Key("folder-mnemonic")) IN
    IF IsErr(folder_mnemonic) THEN folder_mnemonic ELSE
    LET source_container == GetItem(container_entry, Key("source-container")) IN
    IF IsErr(source_container) THEN source_container ELSE
    LET file_configs == Get(container_entry, Key("files"), Map(<<>>)) IN
    IF IsErr(file_configs) THEN file_configs ELSE
    Projection(source_container, destination_container, folder_mnemonic, file_configs)

get_container_config(config, vendor_name, container_name) ==
    LET vendors == Get(config, Key("vendors"), Map(<<>>)) IN
    IF IsErr(vendors) THEN vendors ELSE
    LET vendor_config == Get(vendors, vendor_name, None) IN
    IF IsErr(vendor_config) THEN vendor_config ELSE
    IF ~Truthy(vendor_config) THEN None ELSE
    LET container_entry == Get(vendor_config, container_name, None) IN
    IF IsErr(container_entry) THEN container_entry ELSE
    IF ~Truthy(container_entry) THEN None ELSE
    LET destination_container == GetItem(container_entry, Key("destination-container")) IN
    IF IsErr(destination_container) THEN destination_container ELSE
    LET folder_mnemonic == GetItem(container_entry, Key("folder-mnemonic")) IN
    IF IsErr(folder_mnemonic) THEN folder_mnemonic ELSE
    LET source_container == GetItem(container_entry, Key("source-container")) IN
    IF IsErr(source_container) THEN source_container ELSE
    LET file_configs == Get(container_entry, Key("files"), Map(<<>>)) IN
    IF IsErr(file_configs) THEN file_configs ELSE
    Projection(source_container, destination_container, folder_mnemonic, file_configs)

----------------------------------------------------------------------------
(* The regular expression of line 46 and re.match *)

Digits == {"0", "1", "2", "3", "4", "5", "6", "7", "8", "9"}

\* r"\d{4}/\d{2}/\d{2}$" as its sequence of items
DatePattern ==
    <<"\\d", "\\d", "\\d", "\\d", "/", "\\d", "\\d", "/", "\\d", "\\d", "$">>

\* One item of the pattern at position i of s: the position after it, 0 on failure.
\* "$" matches at the end of the string and just before a newline that ends it.
MatchItem(item, s, i) ==
    CASE item = "\\d" -> IF i <= Len(s) /\ s[i] \in Digits THEN i + 1 ELSE 0
      [] item = "$"   -> IF i = Len(s) + 1 \/ (i = Len(s) /\ s[i] = "\n") THEN i ELSE 0
      [] OTHER        -> IF i <= Len(s) /\ s[i] = item THEN i + 1 ELSE 0

RECURSIVE MatchFrom(_, _, _, _)
MatchFrom(pattern, k, s, i) ==
    IF k > Len(pattern) THEN i
    ELSE LET j == MatchItem(pattern[k], s, i) IN
         IF j = 0 THEN 0 ELSE MatchFrom(pattern, k + 1, s, j)

\* re.search: the pattern is tried at every position of s.
re_search(pattern, s) ==
    LET starts == {i \in 1..(Len(s) + 1) : MatchFrom(pattern, 1, s, i) # 0} IN
    IF starts = {} THEN None
    ELSE LET b == CHOOSE i \in starts : \A j \in starts : i <= j
         IN  Str(SubSeq(s, b, MatchFrom(pattern, 1, s, b) - 1))

\* re.match(pattern, s): the pattern is tried at the start of s only; the result
\* is None or the match, whose group(0) is the matched text.
re_match(pattern, s) ==
    LET e == MatchFrom(pattern, 1, s, 1) IN
    IF e = 0 THEN None ELSE Str(SubSeq(s, 1, e - 1))

----------------------------------------------------------------------------
(* String building: lines 54, 60, 61 and 111 *)

\* A candidate name that loses the ".csv" suffix.
candidate_name_bare(file_mnemonic, file_pattern) ==
    IF Truthy(file_pattern) THEN file_mnemonic.v \o <<"*">>
    ELSE file_mnemonic.v

\* f"{file_mnemonic}*" if file_pattern else f"{file_mnemonic}.csv" (line 111)
candidate_name(file_mnemonic, file_pattern) ==
    IF Truthy(file_pattern) THEN file_mnemonic.v \o <<"*">>
    ELSE file_mnemonic.v \o <<".", "c", "s", "v">>

\* f"{folder_mnemonic}/{date_str}" (line 54)
virtual_folder(folder_mnemonic, date_str) == folder_mnemonic \o <<"/">> \o date_str

\* A destination path that leaves the virtual folder out.
destination_blob_path_flat(folder_path, blob_name) == blob_name

\* virtual_folder_path + "/" + source_blob_name (line 61)
destination_blob_path(folder_path, blob_name) == folder_path \o <<"/">> \o blob_name

\* os.path.join(source_container, source_blob_name) (line 60)
path_join(a, b) ==
    IF b # <<>> /\ b[1] = "/" THEN b
    ELSE IF a = <<>> \/ a[Len(a)] = "/" THEN a \o b
    ELSE a \o <<"/">> \o b

----------------------------------------------------------------------------
(* Bounds and the inputs drawn from them *)

MaxFiles == 2     \* file entries of a container entry
MaxCalls == 3     \* invocations in one behaviour

orders == <<"o", "r", "d", "e", "r", "s">>
date1  == <<"2", "0", "2", "4", "/", "0", "1", "/", "1", "5">>
sftp   == <<"s", "f", "t", "p">>
lake   == <<"l", "a", "k", "e">>
ord    == <<"o", "r", "d">>
glob   == <<"*", ".", "c", "s", "v">>

\* Blob names for direct calls of move_blob_with_virtual_folder
BlobNames ==
    { date1,                                   \* exactly a date fragment
      <<"i", "n", "/">> \o date1,              \* a date fragment after a prefix
      <<"7">> \o date1,                        \* five digits first
      date1 \o <<"\n">>,                       \* a newline after the fragment
      date1 \o <<"\n", "\n">>,
      date1 \o <<".", "c", "s", "v">>,
      <<"2", "0", "2", "4", "-", "0", "1", "-", "1", "5">>,
      <<"2", "0", "2", "4", "/", "1", "/", "1", "5">>,
      <<"2", "0", "2", "4", "/", "0", "1", "/", "1", "x">>,
      orders \o <<".", "c", "s", "v">>,
      orders \o <<"*">>,
      <<>> }

\* File entries: with and without file-mnemonic, file-pattern absent, null,
\* empty and non-empty, and a mnemonic that is itself a date fragment.
FileEntries ==
    { Map(<<KV("file-mnemonic", Str(orders))>>),
      Map(<<KV("file-mnemonic", Str(orders)), KV("file-pattern", None)>>),
      Map(<<KV("file-mnemonic", Str(orders)), KV("file-pattern", Str(<<>>))>>),
      Map(<<KV("file-mnemonic", Str(orders)), KV("file-pattern", Str(glob))>>),
      Map(<<KV("file-mnemonic", Str(date1))>>),
      Map(<<KV("file-mnemonic", Str(date1)), KV("file-pattern", Str(glob))>>),
      Map(<<KV("file-pattern", Str(glob))>>) }

FileKeys == <<"f1", "f2", "f3", "f4">>

FilesMaps ==
    { Map([i \in 1..Len(fs) |-> KV(FileKeys[i], fs[i])]) :
        fs \in UNION {[1..m -> FileEntries] : m \in 0..MaxFiles} }

\* A container entry with the given subset of the three required keys and the
\* given `files` (Absent: no `files` key).
Absent == [t |-> "absent"]
RequiredKeys == <<"source-container", "destination-container", "folder-mnemonic">>
RequiredValues == <<Str(sftp), Str(lake), Str(ord)>>

RECURSIVE Pairs(_, _)
Pairs(keys, i) ==
    IF i > Len(RequiredKeys) THEN <<>>
    ELSE (IF RequiredKeys[i] \in keys
          THEN <<KV(RequiredKeys[i], RequiredValues[i])>> ELSE <<>>)
         \o Pairs(keys, i + 1)

ContainerEntry(keys, files) ==
    Map(Pairs(keys, 1) \o (IF files = Absent THEN <<>> ELSE <<KV("files", files)>>))

AllRequired == {RequiredKeys[i] : i \in DOMAIN RequiredKeys}
OneFile == Map(<<KV("f1", Map(<<KV("file-mnemonic", Str(orders)), KV("file-pattern", None)>>))>>)

ContainerEntries ==
    {None}
    \cup {ContainerEntry(AllRequired, f) : f \in FilesMaps \cup {Absent, None}}
    \cup {ContainerEntry(ks, f) : ks \in SUBSET AllRequired, f \in {Absent, OneFile}}

\* config.yaml: the two connection strings and the vendors mapping
GoodConn == Str(<<"o", "k">>)
BadConn == Str(<<"b", "a", "d">>)

Document(src, dst, vendors) ==
    Map((IF src = Absent THEN <<>> ELSE <<KV("source-storage-connection-string", src)>>)
        \o (IF dst = Absent THEN <<>> ELSE <<KV("destination-storage-connection-string", dst)>>)
        \o (IF vendors = Absent THEN <<>> ELSE <<KV("vendors", vendors)>>))

Vendors(entry) == Map(<<KV("acme", Map(<<KV("orders", entry)>>))>>)

\* What yaml.safe_load gives when the file cannot be opened or parsed
Unreadable == Err("YAMLError", "config.yaml")

ConfigFiles ==
    {Unreadable, None}
    \cup {Document(GoodConn, GoodConn, Vendors(e)) : e \in ContainerEntries}
    \cup {Document(GoodConn, GoodConn, v) :
            v \in {Absent, None, Map(<<>>), Map(<<KV("acme", Map(<<>>))>>)}}
    \cup {Document(c[1], c[2], Vendors(ContainerEntry(AllRequired, OneFile))) :
            c \in {<<Absent, GoodConn>>, <<GoodConn, Absent>>, <<BadConn, GoodConn>>}}

Requests ==
    [vendor : {None, Key("acme"), Key("globex")},
     container : {None, Key("orders"), Key("returns")}]

----------------------------------------------------------------------------
(* State *)

NoArgs == [source_container |-> <<>>, destination_container |-> <<>>,
           folder_mnemonic |-> <<>>]

\* What is observed of one invocation: which function was entered, how it
\* ended, the candidate names main derived and the exceptions raised in it.
NewRun(kind) ==
    [kind |-> kind, outcome |-> "running", status |-> 0, body |-> <<>>,
     candidates |-> <<>>, raised |-> <<>>, ops |-> <<>>]

\* The document and the request of the scenarios: vendor acme, container
\* orders, one file entry {file-mnemonic: "orders", file-pattern: null}.
SampleConfig == Document(GoodConn, GoodConn, Vendors(ContainerEntry(AllRequired, OneFile)))
SampleRequest == [vendor |-> Key("acme"), container |-> Key("orders")]

Init ==
    /\ harness \in BOOLEAN
    /\ IF harness
       THEN configFile = SampleConfig /\ request = SampleRequest
       ELSE configFile \in ConfigFiles /\ request \in Requests
    /\ containers \in {{}, {lake}}
    /\ blobs = {}
    /\ pc = "idle"
    /\ stack = <<>>
    /\ container_config = None
    /\ remaining = <<>>
    /\ source_blob_name = <<>>
    /\ args = NoArgs
    /\ match = None
    /\ virtual_folder_path = <<>>
    /\ exc = None
    /\ ops = <<>>
    /\ run = NewRun("none")
    /\ history = <<>>
    /\ calls = 0

\* An invocation starts with fresh locals.
Enter(kind, frames, at, name, a, path) ==
    /\ pc = "idle"
    /\ calls < MaxCalls
    /\ calls' = calls + 1
    /\ pc' = at
    /\ stack' = frames
    /\ container_config' = None
    /\ remaining' = <<>>
    /\ source_blob_name' = name
    /\ args' = a
    /\ match' = None
    /\ virtual_folder_path' = path
    /\ exc' = None
    /\ ops' = <<>>
    /\ run' = NewRun(kind)
    /\ UNCHANGED <<configFile, request, containers, blobs, history, harness>>

\* The invocation ends: its observation joins the history.
Finish(r) ==
    /\ history' = Append(history, r)
    /\ run' = r
    /\ pc' = "idle"
    /\ stack' = <<>>

\* A handler that catches KeyError only.
CatchesKeyError(e) == e.t = "err" /\ e.type = "KeyError"

\* except Exception (line 127): every exception the code can raise is one.
Catches(e) == e.t = "err"

\* raise e at the current position: control goes to the handler of line 127 when
\* main is on the stack, and out of the invocation otherwise.
Raise(e) ==
    /\ exc' = e
    /\ IF stack # <<>> /\ stack[1] = "main" /\ Catches(e)
       THEN /\ pc' = "main_except"
            /\ stack' = <<"main">>
            /\ run' = [run EXCEPT !.raised = Append(@, e), !.ops = ops']
            /\ UNCHANGED history
       ELSE Finish([run EXCEPT !.outcome = "raised", !.raised = Append(@, e),
                               !.ops = ops'])

\* return func.HttpResponse(body, status_code=status)
Respond(status, body) ==
    Finish([run EXCEPT !.outcome = "response", !.status = status, !.body = body,
                       !.ops = ops'])

\* A function called directly returns to its caller.
Return == Finish([run EXCEPT !.outcome = "returned", !.ops = ops'])

----------------------------------------------------------------------------
(* main, lines 67-131 *)

\* The host delivers the request (line 67).
InvokeMain == Enter("main", <<"main">>, "main_load", <<>>, NoArgs, <<>>)

\* BlobServiceClient.from_connection_string: ValueError on a malformed string
from_connection_string(conn) ==
    IF conn = GoodConn THEN conn ELSE Err("ValueError", "connection string")

\* A load that a second invocation finds consumed.
load_config_once == IF calls > 1 THEN None ELSE configFile

\* lines 81-82: yaml.safe_load of config.yaml, read again on every invocation
load_config == configFile

\* lines 81-82: open and parse config.yaml
MainLoad ==
    /\ pc = "main_load"
    /\ UNCHANGED <<configFile, request, containers, blobs, container_config, remaining,
                   source_blob_name, args, match, virtual_folder_path, ops, calls, harness>>
    /\ IF IsErr(load_config)
       THEN Raise(load_config)
       ELSE /\ pc' = "main_resolve"
            /\ UNCHANGED <<stack, exc, run, history>>

\* lines 85-94: read the parameters, resolve the container configuration and
\* answer 400 when there is none
MainResolve ==
    /\ pc = "main_resolve"
    /\ UNCHANGED <<configFile, request, containers, blobs, remaining, source_blob_name,
                   args, match, virtual_folder_path, ops, calls, harness>>
    /\ LET cc == get_container_config(load_config, request.vendor, request.container) IN
       IF IsErr(cc)
       THEN Raise(cc) /\ UNCHANGED container_config
       ELSE /\ container_config' = cc
            /\ IF ~Truthy(cc)
               THEN /\ Respond(400, <<"Error: Configuration not found for vendor or container.">>)
                    /\ UNCHANGED exc
               ELSE /\ pc' = "main_clients"
                    /\ UNCHANGED <<stack, exc, run, history>>

\* lines 97-105: build the two clients and start the loop over the file entries
MainClients ==
    /\ pc = "main_clients"
    /\ UNCHANGED <<configFile, request, containers, blobs, container_config,
                   source_blob_name, args, match, virtual_folder_path, ops, calls, harness>>
    /\ LET src == GetItem(load_config, Key("source-storage-connection-string"))
           srcClient == from_connection_string(src)
           dst == GetItem(load_config, Key("destination-storage-connection-string"))
           dstClient == from_connection_string(dst)
           file_configs == GetItem(container_config, Key("file_configs"))
       IN  IF IsErr(src) THEN Raise(src) /\ UNCHANGED remaining
           ELSE IF IsErr(srcClient) THEN Raise(srcClient) /\ UNCHANGED remaining
           ELSE IF IsErr(dst) THEN Raise(dst) /\ UNCHANGED remaining
           ELSE IF IsErr(dstClient) THEN Raise(dstClient) /\ UNCHANGED remaining
           ELSE IF IsErr(file_configs) THEN Raise(file_configs) /\ UNCHANGED remaining
           ELSE IF file_configs.t # "map"
                THEN Raise(Err("AttributeError", "items")) /\ UNCHANGED remaining
           ELSE /\ remaining' = file_configs.v
                /\ pc' = "main_loop"
                /\ UNCHANGED <<stack, exc, run, history>>

\* lines 105-111 and 123-125: take the next file entry and derive its candidate
\* name, or answer 200 when none is left
MainLoop ==
    /\ pc = "main_loop"
    /\ UNCHANGED <<configFile, request, containers, blobs, container_config,
                   args, match, virtual_folder_path, ops, calls, harness>>
    /\ IF remaining = <<>>
       THEN /\ Respond(200, <<"Blobs moved successfully with virtual folder structure.">>)
            /\ UNCHANGED <<remaining, source_blob_name, exc>>
       ELSE LET file_config == Head(remaining).val
                file_mnemonic == GetItem(file_config, Key("file-mnemonic"))
                file_pattern == Get(file_config, Key("file-pattern"), None)
            IN  /\ remaining' = Tail(remaining)
                /\ IF IsErr(file_mnemonic)
                   THEN Raise(file_mnemonic) /\ UNCHANGED source_blob_name
                   ELSE /\ source_blob_name' = candidate_name(file_mnemonic, file_pattern)
                        /\ run' = [run EXCEPT !.candidates = Append(@, source_blob_name')]
                        /\ pc' = "main_call"
                        /\ UNCHANGED <<stack, exc, history>>

\* lines 114-121: evaluate the arguments and call move_blob_with_virtual_folder
MainCall ==
    /\ pc = "main_call"
    /\ UNCHANGED <<configFile, request, containers, blobs, container_config, remaining,
                   source_blob_name, match, virtual_folder_path, ops, calls, harness>>
    /\ LET source_container == GetItem(container_config, Key("source-container"))
           destination_container == GetItem(container_config, Key("destination-container"))
           folder_mnemonic == GetItem(container_config, Key("folder-mnemonic"))
       IN  IF IsErr(source_container) THEN Raise(source_container) /\ UNCHANGED args
           ELSE IF IsErr(destination_container)
                THEN Raise(destination_container) /\ UNCHANGED args
           ELSE IF IsErr(folder_mnemonic) THEN Raise(folder_mnemonic) /\ UNCHANGED args
           ELSE /\ args' = [source_container |-> source_container.v,
                            destination_container |-> destination_container.v,
                            folder_mnemonic |-> folder_mnemonic.v]
                /\ pc' = "move_match"
                /\ stack' = <<"main", "move">>
                /\ UNCHANGED <<exc, run, history>>

\* lines 127-131: log the exception and answer 500 with its text in the body
MainExcept ==
    /\ pc = "main_except"
    /\ UNCHANGED <<configFile, request, containers, blobs, container_config, remaining,
                   source_blob_name, args, match, virtual_folder_path, exc, ops, calls, harness>>
    /\ Respond(500, <<"Error processing request: ", exc.text>>)

----------------------------------------------------------------------------
(* The storage operations of the destination account *)

\* One call of a storage operation, as it is issued: `present` is what the
\* account holds at that moment (the container for exists and create_container,
\* the blob at `path` otherwise) and `ok` whether the call returned.
Op(name, container, path, src, ok) ==
    [op |-> name, container |-> container, path |-> path, src |-> src,
     present |-> IF name \in {"exists", "create_container"}
                 THEN container \in containers
                 ELSE <<container, path>> \in blobs,
     ok |-> ok]

StorageError(name) == Err("StorageError", name)

----------------------------------------------------------------------------
(* move_blob_with_virtual_folder, lines 43-65 *)

\* A direct call, as a test or another caller makes it.
CallMove ==
    /\ harness
    /\ \E name \in BlobNames :
        Enter("move", <<"move">>, "move_match", name,
              [source_container |-> sftp, destination_container |-> lake,
               folder_mnemonic |-> ord], <<>>)

\* The function returns to main's loop, or to the direct caller.
ReturnFromMove ==
    IF stack[1] = "main"
    THEN /\ pc' = "main_loop"
         /\ stack' = <<"main">>
         /\ UNCHANGED <<run, history>>
    ELSE Return

\* lines 46-57: match the name, return on a mismatch, else build the virtual
\* folder path and call create_virtual_folder
MoveMatch ==
    /\ pc = "move_match"
    /\ UNCHANGED <<configFile, request, containers, blobs, container_config, remaining,
                   source_blob_name, args, exc, ops, calls, harness>>
    /\ match' = re_match(DatePattern, source_blob_name)
    /\ IF ~Truthy(match')
       THEN ReturnFromMove /\ UNCHANGED virtual_folder_path
       ELSE /\ virtual_folder_path' = virtual_folder(args.folder_mnemonic, match'.v)
            /\ pc' = "cvf_exists"
            /\ stack' = Append(stack, "cvf")
            /\ UNCHANGED <<run, history>>

\* lines 60-65: build the two paths and copy
MoveCopy ==
    /\ pc = "move_copy"
    /\ UNCHANGED <<configFile, request, containers, container_config, remaining,
                   source_blob_name, args, match, virtual_folder_path, calls, harness>>
    /\ \E ok \in BOOLEAN :
        LET source_blob_path == path_join(args.source_container, source_blob_name)
            destination == destination_blob_path(virtual_folder_path, source_blob_name)
        IN  /\ ops' = Append(ops, Op("copy_blob", args.destination_container,
                                     destination, source_blob_path, ok))
            /\ IF ok
               THEN /\ blobs' = blobs \cup {<<args.destination_container, destination>>}
                    /\ ReturnFromMove
                    /\ UNCHANGED exc
               ELSE /\ Raise(StorageError("copy_blob"))
                    /\ UNCHANGED blobs

----------------------------------------------------------------------------
(* create_virtual_folder, lines 32-40 *)

CallCreateVirtualFolder ==
    /\ harness
    /\ Enter("cvf", <<"cvf">>, "cvf_exists", <<>>,
          [source_container |-> sftp, destination_container |-> lake,
           folder_mnemonic |-> ord], virtual_folder(ord, date1))

\* line 35: does the container exist?
CvfExists ==
    /\ pc = "cvf_exists"
    /\ UNCHANGED <<configFile, request, containers, blobs, container_config, remaining,
                   source_blob_name, args, match, virtual_folder_path, calls, harness>>
    /\ \E ok \in BOOLEAN :
        /\ ops' = Append(ops, Op("exists", args.destination_container, <<>>, <<>>, ok))
        /\ IF ok
           THEN /\ pc' = IF args.destination_container \in containers
                         THEN "cvf_create_blob" ELSE "cvf_create_container"
                /\ UNCHANGED <<stack, exc, run, history>>
           ELSE Raise(StorageError("exists"))

\* line 36: create the container
CvfCreateContainer ==
    /\ pc = "cvf_create_container"
    /\ UNCHANGED <<configFile, request, blobs, container_config, remaining,
                   source_blob_name, args, match, virtual_folder_path, calls, harness>>
    /\ \E ok \in BOOLEAN :
        /\ ops' = Append(ops, Op("create_container", args.destination_container,
                                 <<>>, <<>>, ok))
        /\ IF ok
           THEN /\ containers' = containers \cup {args.destination_container}
                /\ pc' = "cvf_create_blob"
                /\ UNCHANGED <<stack, exc, run, history>>
           ELSE /\ Raise(StorageError("create_container"))
                /\ UNCHANGED containers

\* lines 39-40: create the empty blob that marks the folder, and return
CvfCreateBlob ==
    /\ pc = "cvf_create_blob"
    /\ UNCHANGED <<configFile, request, containers, container_config, remaining,
                   source_blob_name, args, match, virtual_folder_path, calls, harness>>
    /\ \E ok \in BOOLEAN :
        /\ ops' = Append(ops, Op("create_blob", args.destination_container,
                                 virtual_folder_path, <<>>, ok))
        /\ IF ok
           THEN /\ blobs' = blobs \cup {<<args.destination_container, virtual_folder_path>>}
                /\ UNCHANGED exc
                /\ IF Len(stack) > 1
                   THEN /\ pc' = "move_copy"
                        /\ stack' = SubSeq(stack, 1, Len(stack) - 1)
                        /\ UNCHANGED <<run, history>>
                   ELSE Return
           ELSE /\ Raise(StorageError("create_blob"))
                /\ UNCHANGED blobs

----------------------------------------------------------------------------

Next ==
    \/ InvokeMain
    \/ MainLoad
    \/ MainResolve
    \/ MainClients
    \/ MainLoop
    \/ MainCall
    \/ MainExcept
    \/ CallMove
    \/ MoveMatch
    \/ MoveCopy
    \/ CallCreateVirtualFolder
    \/ CvfExists
    \/ CvfCreateContainer
    \/ CvfCreateBlob

Spec == Init /\ [][Next]_vars

----------------------------------------------------------------------------
(* Vocabulary of the properties *)

\* The running or last invocation is a call of main that has ended.
MainEnded == run.kind = "main" /\ run.outcome # "running"

\* main is past the lookup of lines 85-89.
MainResolved ==
    run.kind = "main" /\ ~IsErr(configFile) /\ pc \notin {"main_load", "main_resolve"}

\* The document as the data model describes it: a mapping whose vendors, when
\* present, maps vendor names to mappings.
VendorsOf ==
    IF HasKey(configFile, Key("vendors")) THEN Lookup(configFile, Key("vendors"))
    ELSE Map(<<>>)

WellShaped ==
    /\ configFile.t = "map"
    /\ VendorsOf.t = "map"
    /\ \A i \in DOMAIN VendorsOf.v : VendorsOf.v[i].val.t = "map"

VendorKnown == HasKey(VendorsOf, request.vendor)
EntryPresent ==
    WellShaped /\ VendorKnown /\ HasKey(Lookup(VendorsOf, request.vendor), request.container)
TheEntry == Lookup(Lookup(VendorsOf, request.vendor), request.container)

EntryComplete ==
    /\ EntryPresent
    /\ TheEntry.t = "map"
    /\ \A i \in DOMAIN RequiredKeys : HasKey(TheEntry, Key(RequiredKeys[i]))

\* The `files` of the entry, an empty mapping when the key is absent
FilesOf(entry) ==
    IF HasKey(entry, Key("files")) THEN Lookup(entry, Key("files")) ELSE Map(<<>>)

\* Nothing but a pattern mismatch can happen to the file entries: the document
\* has both connection strings and every file entry has a file-mnemonic.
OnlySkips ==
    /\ EntryComplete
    /\ HasKey(configFile, Key("source-storage-connection-string"))
    /\ Lookup(configFile, Key("source-storage-connection-string")) = GoodConn
    /\ HasKey(configFile, Key("destination-storage-connection-string"))
    /\ Lookup(configFile, Key("destination-storage-connection-string")) = GoodConn
    /\ FilesOf(TheEntry).t = "map"
    /\ \A i \in DOMAIN FilesOf(TheEntry).v :
          /\ FilesOf(TheEntry).v[i].val.t = "map"
          /\ HasKey(FilesOf(TheEntry).v[i].val, Key("file-mnemonic"))

IsWrite(o) == o.op \in {"create_container", "create_blob", "copy_blob"}

\* s is DDDD/DD/DD and nothing else.
IsDateFragment(s) ==
    /\ Len(s) = 10
    /\ \A i \in {1, 2, 3, 4, 6, 7, 9, 10} : s[i] \in Digits
    /\ s[5] = "/" /\ s[8] = "/"

\* s ends with DDDD/DD/DD, whatever precedes it.
EndsWithDateFragment(s) ==
    Len(s) >= 10 /\ IsDateFragment(SubSeq(s, Len(s) - 9, Len(s)))

\* A direct call of move_blob_with_virtual_folder is past the check of line 47.
MoveDecided == run.kind = "move" /\ pc # "move_match"

MoveFailedSilently ==
    /\ virtual_folder_path = <<>>
    /\ run.outcome = "returned"
    /\ ops = <<>>

SuccessBody == <<"Blobs moved successfully with virtual folder structure.">>
NotFoundBody == <<"Error: Configuration not found for vendor or container.">>

----------------------------------------------------------------------------
(* C1 *)

\* C1: when main has processed a resolved container configuration whose file
\* entries can only be skipped, it answers 200 with the success body, however
\* many entries were skipped; so it does for the one entry
\* {file-mnemonic: "orders", file-pattern: null}, whose candidate is orders.csv.
C1_SkippedEntriesAnswer200 ==
    (MainEnded /\ OnlySkips) =>
        /\ run.outcome = "response"
        /\ run.status = 200
        /\ run.body = SuccessBody

----------------------------------------------------------------------------
(* C2 *)

----------------------------------------------------------------------------
(* C3 *)

\* C3 as stated: a blob name that ends with DDDD/DD/DD, whatever precedes the
\* fragment, gets the virtual folder path "{folderMnemonic}/{fragment}"; any
\* other name makes the function return without a storage operation.
C3_AnySuffixDateBuildsPath ==
    MoveDecided =>
        IF EndsWithDateFragment(source_blob_name)
        THEN virtual_folder_path =
                args.folder_mnemonic \o <<"/">>
                \o SubSeq(source_blob_name, Len(source_blob_name) - 9, Len(source_blob_name))
        ELSE MoveFailedSilently

\* The names the code accepts: the fragment alone, or the fragment and one
\* newline after it.
IsAcceptedName(s) ==
    \/ IsDateFragment(s)
    \/ Len(s) = 11 /\ IsDateFragment(SubSeq(s, 1, 10)) /\ s[11] = "\n"

\* C3 amended: a blob name that is exactly DDDD/DD/DD (anchored at the start
\* and at the end, one trailing newline allowed) gets the virtual folder path
\* "{folderMnemonic}/{fragment}"; any other name, a fragment after a prefix
\* included, makes the function return without a storage operation.
C3_ExactDateBuildsPath ==
    MoveDecided =>
        IF IsAcceptedName(source_blob_name)
        THEN virtual_folder_path =
                args.folder_mnemonic \o <<"/">> \o SubSeq(source_blob_name, 1, 10)
        ELSE MoveFailedSilently

C3_Witness ==
    /\ MoveDecided
    /\ EndsWithDateFragment(source_blob_name)
    /\ ~IsAcceptedName(source_blob_name)
    /\ MoveFailedSilently

----------------------------------------------------------------------------
(* C4 *)

\* The result of the lookup is the four-field projection of the entry.
IsProjectionOfEntry ==
    /\ container_config.t = "map"
    /\ Len(container_config.v) = 4
    /\ {container_config.v[i].k : i \in DOMAIN container_config.v}
         = {"source_container", "destination_container", "folder_mnemonic", "file_configs"}
    /\ Lookup(container_config, Key("source_container"))
         = Lookup(TheEntry, Key("source-container"))
    /\ Lookup(container_config, Key("destination_container"))
         = Lookup(TheEntry, Key("destination-container"))
    /\ Lookup(container_config, Key("folder_mnemonic"))
         = Lookup(TheEntry, Key("folder-mnemonic"))
    /\ Lookup(container_config, Key("file_configs")) = FilesOf(TheEntry)

\* C4 as stated: for every (vendor, container) whose entry exists in the
\* configuration, get_container_config gives the four-field projection of the
\* entry and never None.
C4_PresentPairGivesProjection ==
    (MainResolved /\ EntryPresent) =>
        /\ exc = None
        /\ Truthy(container_config)
        /\ TheEntry.t = "map"
        /\ IsProjectionOfEntry

\* C4 amended: for every (vendor, container) whose entry exists and holds the
\* three required keys source-container, destination-container and
\* folder-mnemonic, get_container_config gives exactly the four fields, each
\* copied from the entry, file_configs an empty mapping when `files` is absent.
C4_CompleteEntryGivesProjection ==
    (MainResolved /\ EntryComplete) => IsProjectionOfEntry

C4_Witness ==
    /\ MainResolved /\ EntryComplete
    /\ ~HasKey(TheEntry, Key("files"))
    /\ Lookup(container_config, Key("file_configs")) = Map(<<>>)

----------------------------------------------------------------------------
(* C5 *)

\* C5: one file entry's failure does not abort the others: main takes every
\* file entry of the container configuration before it answers.
C5_EveryEntryTaken ==
    (MainEnded /\ OnlySkips) =>
        Len(run.candidates) = Len(FilesOf(TheEntry).v)

----------------------------------------------------------------------------
(* C6 *)

----------------------------------------------------------------------------
(* C7 *)

\* The destination paths of the copies an invocation issued
Destinations(o) == [i \in {j \in DOMAIN o : o[j].op = "copy_blob"} |-> o[i].path]

----------------------------------------------------------------------------
(* C8 *)

\* C8: in move_blob_with_virtual_folder a copy is issued only for a name that
\* passed the pattern check, only after the container was seen or created and
\* the marker blob was created at "{folderMnemonic}/{fragment}" in the
\* destination container, and to "{virtualFolderPath}/{sourceBlobName}".
C8_CopyAfterMarker ==
    \A i \in DOMAIN ops :
        ops[i].op = "copy_blob" =>
            LET marker == args.folder_mnemonic \o <<"/">> \o SubSeq(source_blob_name, 1, 10)
            IN  /\ IsAcceptedName(source_blob_name)
                /\ i = Len(ops)
                /\ i > 2
                /\ ops[1].op = "exists" /\ ops[1].ok
                /\ ops[1].present \/ (ops[2].op = "create_container" /\ ops[2].ok)
                /\ ops[i - 1] = [op |-> "create_blob",
                                 container |-> args.destination_container,
                                 path |-> marker, src |-> <<>>,
                                 present |-> ops[i - 1].present, ok |-> TRUE]
                /\ \A j \in 1..(i - 1) : ops[j].op # "copy_blob"
                /\ ops[i].container = args.destination_container
                /\ ops[i].path = marker \o <<"/">> \o source_blob_name
                /\ <<args.destination_container, marker>> \in blobs

C8_Witness ==
    /\ run.kind = "move"
    /\ ops # <<>>
    /\ ops[Len(ops)].op = "copy_blob" /\ ops[Len(ops)].ok
    /\ ops[2].op = "create_container"

----------------------------------------------------------------------------
(* C9 *)

\* The file entry main has just taken from the loop
TakenEntry ==
    LET files == Lookup(container_config, Key("file_configs")).v
    IN  files[Len(files) - Len(remaining)].val

\* C9: no call of main issues a destination write (create_container,
\* create_blob, copy_blob): each candidate name is "{file-mnemonic}*" when
\* file-pattern is truthy and "{file-mnemonic}.csv" otherwise, and no such name
\* passes the date-fragment check.
C9_MainNeverWrites ==
    /\ run.kind = "main" => \A i \in DOMAIN ops : ~IsWrite(ops[i])
    /\ \A h \in DOMAIN history :
          history[h].kind = "main" => \A i \in DOMAIN history[h].ops : ~IsWrite(history[h].ops[i])
    /\ pc = "main_call" =>
          LET mnemonic == Lookup(TakenEntry, Key("file-mnemonic")).v
              wildcard ==
                  /\ HasKey(TakenEntry, Key("file-pattern"))
                  /\ Lookup(TakenEntry, Key("file-pattern")) \notin {None, Str(<<>>)}
          IN  /\ source_blob_name =
                    IF wildcard THEN mnemonic \o <<"*">> ELSE mnemonic \o <<".", "c", "s", "v">>
              /\ ~IsAcceptedName(source_blob_name)
              /\ re_match(DatePattern, source_blob_name) = None

C9_Witness ==
    /\ pc = "main_call"
    /\ IsDateFragment(Lookup(TakenEntry, Key("file-mnemonic")).v)
    /\ ~HasKey(TakenEntry, Key("file-pattern"))

----------------------------------------------------------------------------
(* C10 *)

\* C10: create_virtual_folder creates the folder only if it does not exist: it
\* issues create_container exactly when the existence check found the container
\* absent, and it issues create_blob only when no blob is present at the path.
C10_CreatesOnlyWhatIsAbsent ==
    \A i \in DOMAIN ops :
        /\ ops[i].op = "create_container" =>
              i > 1 /\ ops[i - 1].op = "exists" /\ ~ops[i - 1].present
        /\ (ops[i].op = "exists" /\ ops[i].ok /\ ~ops[i].present /\ i < Len(ops)) =>
              ops[i + 1].op = "create_container"
        /\ ops[i].op = "create_blob" => ~ops[i].present

====
